---- MODULE Spec2Model ----
(***************************************************************************)
(* Diphone synthesizer: synth.py (Utterance.get_diphones, Synth, __main__)  *)
(* and simpleaudio.py (Audio.put_bytes, play, load, rescale).               *)
(*                                                                          *)
(* Three specifications share the variables and the actions:                *)
(*   Spec        the __main__ pipeline of synth.py, lines 156-168;          *)
(*   SpecRescale Audio.rescale applied to an arbitrary buffer and factor;   *)
(*   SpecPlay    Audio.play applied to an arbitrary buffer and chunk size.  *)
(***************************************************************************)
EXTENDS Integers, Sequences, FiniteSets, TLC

VARIABLES
    pc,            \* position of the program
    err,           \* the exception that ended the program, "none" if none
    phones,        \* Utterance.phones
    diphones,      \* the list returned by Utterance.get_diphones
    directory,     \* the file names present in the diphone directory
    save_arg,      \* whether --save was given (args.save)
    audio,         \* Synth.audio: file name -> loaded samples
    loads,         \* number of Audio.load calls per file name
    i,             \* index of the loops of Synth.__init__ / Synth.get_audio
    output_audio,  \* the list get_audio collects
    output_exists, \* whether get_audio has built the output buffer
    data,          \* Audio.data of the output object
    data0,         \* Audio.data when rescale was entered
    val,           \* twice the scaling factor passed to rescale (2 is 1.0)
    bytes,         \* Audio.bytes
    count,         \* Audio.count
    output_stream, \* Audio.output_stream: "None" or "open"
    written,       \* the chunks handed to output_stream.write, in order
    saved          \* the sample sequences written by Audio.save, in order

vars == <<pc, err, phones, diphones, directory, save_arg, audio, loads, i,
          output_audio, output_exists, data, data0, val, bytes, count,
          output_stream, written, saved>>

-----------------------------------------------------------------------------
(* Program constants *)

BYTES == 256
MAX_AMP == 32768

(* Bounds of the model *)

MaxPhones == 3
MaxMissing == 1
MaxSamples == 3
MaxPlayLen == 4
MaxBytes == 3

None == "None"
Phonemes == {"k", "ae"}

(* Sample values of the buffers handed to rescale. On these values the     *)
(* float64 products of rescale are exact, so truncation of the rational    *)
(* value is what numpy computes.                                           *)
SampleValues == {-32768, -3, -1, 0, 1, 2, 3, 32767}
PlaySamples == {-1, 1}
Factors2 == {-1, 0, 1, 2, 3}
CastModes == {"wrap", "saturate"}

SeqsUpTo(S, n) == UNION {[1..k -> S] : k \in 0..n}

-----------------------------------------------------------------------------
(* synth.py: Utterance.get_diphones *)

RECURSIVE ExpandPhones(_, _, _)
ExpandPhones(p, k, acc) ==
    IF k > Len(p) - 1 THEN acc
    ELSE ExpandPhones(p, k + 1, Append(acc, <<p[k], p[k + 1]>>))

RECURSIVE ExpandPhonesDedup(_, _, _)
ExpandPhonesDedup(p, k, acc) ==
    IF k > Len(p) - 1 THEN acc
    ELSE ExpandPhonesDedup(p, k + 1,
             IF acc[Len(acc)] = <<p[k], p[k + 1]>> THEN acc
             ELSE Append(acc, <<p[k], p[k + 1]>>))

get_diphones_dedup(p) ==
    Append(ExpandPhonesDedup(p, 1, <<<<None, p[1]>>>>), <<p[Len(p)], None>>)

get_diphones(p) ==
    Append(ExpandPhones(p, 1, <<<<None, p[1]>>>>), <<p[Len(p)], None>>)

(* synth.py: Synth.get_filename *)

get_filename(diphone) ==
    LET ph1 == IF diphone[1] # None THEN diphone[1] ELSE "pau"
        ph2 == IF diphone[2] # None THEN diphone[2] ELSE "pau"
    IN  ph1 \o "-" \o ph2 \o ".wav"

AllDiphones == (Phonemes \cup {None}) \X (Phonemes \cup {None})
AllFilenames == {get_filename(d) : d \in AllDiphones}

(* The frames of the WAV files of the diphone directory (16-bit mono): one  *)
(* recording is longer than a chunk of BYTES frames, the others are short. *)
PhoneIndex(ph) == IF ph = None THEN 0 ELSE IF ph = "k" THEN 1 ELSE 2
PhoneAmp(ph) == IF ph = None THEN 0 ELSE IF ph = "k" THEN 1 ELSE -2
WavFrames(fn) ==
    LET d == CHOOSE x \in AllDiphones : get_filename(x) = fn
        n == IF d = <<"k", "ae">> THEN BYTES + 44
             ELSE 2 + 3 * PhoneIndex(d[1]) + PhoneIndex(d[2])
    IN  [k \in 1..n |-> IF k % 2 = 1 THEN PhoneAmp(d[1]) ELSE PhoneAmp(d[2])]

(* simpleaudio.py: Audio.load, reading `bytes` frames at a time *)

RECURSIVE ReadFrames(_, _, _, _)
ReadFrames(frames, pos, chunk, acc) ==
    LET raw == SubSeq(frames, pos + 1,
                      IF pos + chunk > Len(frames) THEN Len(frames) ELSE pos + chunk)
    IN  IF raw = <<>> THEN acc
        ELSE ReadFrames(frames, pos + Len(raw), chunk, acc \o raw)

load(frames) == ReadFrames(frames, 0, BYTES, <<>>)

(* numpy.concatenate over a list of arrays *)

RECURSIVE ConcatFrom(_, _)
ConcatFrom(arrays, k) ==
    IF k > Len(arrays) THEN <<>> ELSE arrays[k] \o ConcatFrom(arrays, k + 1)

RECURSIVE ConcatReversed(_, _)
ConcatReversed(arrays, k) ==
    IF k > Len(arrays) THEN <<>> ELSE ConcatReversed(arrays, k + 1) \o arrays[k]

concatenate_reversed(arrays) == ConcatReversed(arrays, 1)

concatenate(arrays) == ConcatFrom(arrays, 1)

-----------------------------------------------------------------------------
(* simpleaudio.py: Audio.rescale *)

(* abs of a numpy int16: the most negative value has no positive twin *)
Abs16(x) == IF x = -32768 THEN -32768 ELSE IF x < 0 THEN -x ELSE x

(* lines 209-211: the largest Abs16 over the indices range(len(data) - 1),  *)
(* starting from peak = 0                                                   *)
Peak(d) ==
    LET seen == {0} \cup {Abs16(d[k]) : k \in 1..(Len(d) - 1)}
    IN  CHOOSE m \in seen : \A x \in seen : x <= m

Trunc(num, den) == IF num >= 0 THEN num \div den ELSE -((-num) \div den)

(* data * (val * MAX_AMP / peak), before the cast; v is twice val *)
ScaleSample(s, v, peak) == Trunc(s * v * (MAX_AMP \div 2), peak)

(* astype(int16) of a float: out of range it is undefined in C *)
CastInt16(x, mode) ==
    IF -32768 <= x /\ x <= 32767 THEN x
    ELSE IF mode = "wrap" THEN ((x + 32768) % 65536) - 32768
    ELSE IF x < 0 THEN -32768 ELSE 32767

-----------------------------------------------------------------------------
(* Initial states *)

NoAudio == [fn \in {} |-> <<>>]
NoLoads == [fn \in AllFilenames |-> 0]

Init ==
    /\ pc = "get_diphones"
    /\ err = "none"
    /\ phones \in SeqsUpTo(Phonemes, MaxPhones)
    /\ diphones = <<>>
    /\ directory \in {AllFilenames \ m : m \in {s \in SUBSET AllFilenames :
                                                    Cardinality(s) <= MaxMissing}}
    /\ save_arg \in BOOLEAN
    /\ audio = NoAudio
    /\ loads = NoLoads
    /\ i = 1
    /\ output_audio = <<>>
    /\ output_exists = FALSE
    /\ data = <<>>
    /\ data0 = <<>>
    /\ val = 2
    /\ bytes = BYTES
    /\ count = 0
    /\ output_stream = "None"
    /\ written = <<>>
    /\ saved = <<>>

AudioObject(d, b, c) ==
    /\ err = "none"
    /\ phones = <<>>
    /\ diphones = <<>>
    /\ directory = {}
    /\ save_arg = FALSE
    /\ audio = NoAudio
    /\ loads = NoLoads
    /\ i = 1
    /\ output_audio = <<>>
    /\ output_exists = TRUE
    /\ data = d
    /\ data0 = d
    /\ bytes = b
    /\ count = c
    /\ output_stream = "None"
    /\ written = <<>>
    /\ saved = <<>>

InitRescale ==
    /\ pc = "rescale"
    /\ val \in Factors2
    /\ \E d \in SeqsUpTo(SampleValues, MaxSamples) : AudioObject(d, BYTES, 0)

InitPlay ==
    /\ pc = "play"
    /\ val = 2
    /\ \E d \in SeqsUpTo(PlaySamples, MaxPlayLen), b \in 1..MaxBytes, c \in 0..1 :
           AudioObject(d, b, c)

-----------------------------------------------------------------------------
(* synth.py __main__, line 158: utterance.get_diphones() *)

Raise(e) ==
    /\ pc' = "raised"
    /\ err' = e

MainGetDiphones ==
    /\ pc = "get_diphones"
    /\ IF Len(phones) = 0
       THEN /\ Raise("IndexError")
            /\ UNCHANGED diphones
       ELSE /\ diphones' = get_diphones(phones)
            /\ pc' = "synth_init"
            /\ err' = err
    /\ UNCHANGED <<phones, directory, save_arg, audio, loads, i, output_audio,
                   output_exists, data, data0, val, bytes, count, output_stream,
                   written, saved>>

(* synth.py: Synth.__init__, one iteration of the loop of lines 102-114 *)

InCacheNever(filename, cache) == FALSE

InCache(filename, cache) == filename \in DOMAIN cache

SynthInitHit ==
    /\ pc = "synth_init"
    /\ i <= Len(diphones)
    /\ InCache(get_filename(diphones[i]), audio)
    /\ i' = i + 1
    /\ UNCHANGED <<pc, err, phones, diphones, directory, save_arg, audio, loads,
                   output_audio, output_exists, data, data0, val, bytes, count,
                   output_stream, written, saved>>

SynthInitMissingSkip ==
    /\ pc = "synth_init"
    /\ i <= Len(diphones)
    /\ ~InCache(get_filename(diphones[i]), audio)
    /\ get_filename(diphones[i]) \notin directory
    /\ i' = i + 1
    /\ UNCHANGED <<pc, err, phones, diphones, directory, save_arg, audio, loads,
                   output_audio, output_exists, data, data0, val, bytes, count,
                   output_stream, written, saved>>

SynthInitMissing ==
    /\ pc = "synth_init"
    /\ i <= Len(diphones)
    /\ ~InCache(get_filename(diphones[i]), audio)
    /\ get_filename(diphones[i]) \notin directory
    /\ pc' = "exited"
    /\ err' = "SystemExit"
    /\ UNCHANGED <<phones, diphones, directory, save_arg, audio, loads, i,
                   output_audio, output_exists, data, data0, val, bytes, count,
                   output_stream, written, saved>>

SynthInitLoad ==
    /\ pc = "synth_init"
    /\ i <= Len(diphones)
    /\ LET filename == get_filename(diphones[i])
       IN  /\ ~InCache(filename, audio)
           /\ filename \in directory
           /\ audio' = [fn \in DOMAIN audio \cup {filename} |->
                           IF fn = filename THEN load(WavFrames(filename))
                           ELSE audio[fn]]
           /\ loads' = [loads EXCEPT ![filename] = @ + 1]
    /\ i' = i + 1
    /\ UNCHANGED <<pc, err, phones, diphones, directory, save_arg, output_audio,
                   output_exists, data, data0, val, bytes, count, output_stream,
                   written, saved>>

(* synth.py __main__, line 162: synth.get_audio() is entered *)
SynthInitDone ==
    /\ pc = "synth_init"
    /\ i > Len(diphones)
    /\ pc' = "get_audio"
    /\ i' = 1
    /\ output_audio' = <<>>
    /\ UNCHANGED <<err, phones, diphones, directory, save_arg, audio, loads,
                   output_exists, data, data0, val, bytes, count, output_stream,
                   written, saved>>

(* synth.py: Synth.get_audio, one iteration of the loop of lines 132-135 *)
GetAudioAppend ==
    /\ pc = "get_audio"
    /\ i <= Len(diphones)
    /\ LET filename == get_filename(diphones[i])
       IN  IF filename \in DOMAIN audio
           THEN /\ output_audio' = Append(output_audio, audio[filename])
                /\ i' = i + 1
                /\ UNCHANGED <<pc, err>>
           ELSE /\ Raise("KeyError")
                /\ UNCHANGED <<output_audio, i>>
    /\ UNCHANGED <<phones, diphones, directory, save_arg, audio, loads,
                   output_exists, data, data0, val, bytes, count, output_stream,
                   written, saved>>

(* synth.py: Synth.get_audio, lines 138-142 up to the call of rescale(1.0) *)
GetAudioConcat ==
    /\ pc = "get_audio"
    /\ i > Len(diphones)
    /\ IF output_audio = <<>>
       THEN /\ Raise("ValueError")
            /\ UNCHANGED <<output_exists, data, data0, val>>
       ELSE /\ data' = concatenate(output_audio)
            /\ data0' = data'
            /\ output_exists' = TRUE
            /\ val' = 2
            /\ pc' = "rescale"
            /\ err' = err
    /\ bytes' = BYTES
    /\ count' = 0
    /\ output_stream' = "None"
    /\ UNCHANGED <<phones, diphones, directory, save_arg, audio, loads, i,
                   output_audio, written, saved>>

-----------------------------------------------------------------------------
(* simpleaudio.py: Audio.rescale, lines 199-217 *)
Rescale ==
    /\ pc = "rescale"
    /\ data0' = data
    /\ IF ~(0 <= val /\ val <= 2)
       THEN /\ Raise("ValueError")
            /\ UNCHANGED data
       ELSE IF Peak(data) = 0
       THEN /\ Raise("ZeroDivisionError")
            /\ UNCHANGED data
       ELSE /\ LET peak == Peak(data)
               IN  \E mode \in CastModes :
                     data' = [k \in 1..Len(data) |->
                                 CastInt16(ScaleSample(data[k], val, peak), mode)]
            /\ pc' = "rescaled"
            /\ err' = err
    /\ UNCHANGED <<phones, diphones, directory, save_arg, audio, loads, i,
                   output_audio, output_exists, val, bytes, count, output_stream,
                   written, saved>>

-----------------------------------------------------------------------------
(* simpleaudio.py: Audio.play, lines 117-135 *)

(* open_output_stream, lines 94-108; `at` is where play is called from *)
PlayOpen(at) ==
    /\ pc = at
    /\ output_stream' = "open"
    /\ count' = 0
    /\ pc' = "play_loop"
    /\ UNCHANGED <<err, phones, diphones, directory, save_arg, audio, loads, i,
                   output_audio, output_exists, data, data0, val, bytes, written,
                   saved>>

(* put_bytes, lines 61-62 *)
slice_from == count * bytes
slice_to == slice_from + bytes - 1

(* numpy's data[a:b] with 0 <= a: the elements at 0-based indices a..b-1 *)
Slice(d, a, b) ==
    SubSeq(d, a + 1, IF b > Len(d) THEN Len(d) ELSE b)

(* put_bytes, lines 69-71: the chunk is written and counted *)
PutBytesWrite ==
    /\ pc = "play_loop"
    /\ ~(slice_to > Len(data))
    /\ written' = Append(written, Slice(data, slice_from, slice_to))
    /\ count' = count + 1
    /\ UNCHANGED <<pc, err, phones, diphones, directory, save_arg, audio, loads,
                   i, output_audio, output_exists, data, data0, val, bytes,
                   output_stream, saved>>

(* put_bytes, line 70: the device refuses the chunk; the error leaves play *)
PutBytesDeviceError ==
    /\ pc = "play_loop"
    /\ ~(slice_to > Len(data))
    /\ Raise("IOError")
    /\ UNCHANGED <<phones, diphones, directory, save_arg, audio, loads, i,
                   output_audio, output_exists, data, data0, val, bytes, count,
                   output_stream, written, saved>>

PutBytesOutOfRangeContinue ==
    /\ pc = "play_loop"
    /\ slice_to > Len(data)
    /\ UNCHANGED vars

(* put_bytes, lines 65-66, caught by play, lines 130-131 *)
PutBytesOutOfRange ==
    /\ pc = "play_loop"
    /\ slice_to > Len(data)
    /\ pc' = "play_close"
    /\ UNCHANGED <<err, phones, diphones, directory, save_arg, audio, loads, i,
                   output_audio, output_exists, data, data0, val, bytes, count,
                   output_stream, written, saved>>

(* close_output_stream, lines 110-115 *)
PlayClose ==
    /\ pc = "play_close"
    /\ output_stream' = "None"
    /\ pc' = "played"
    /\ UNCHANGED <<err, phones, diphones, directory, save_arg, audio, loads, i,
                   output_audio, output_exists, data, data0, val, bytes, count,
                   written, saved>>

(* synth.py __main__, lines 167-168, and simpleaudio.py: Audio.save *)
MainSave ==
    /\ pc = "played"
    /\ saved' = IF save_arg THEN Append(saved, data) ELSE saved
    /\ pc' = "done"
    /\ UNCHANGED <<err, phones, diphones, directory, save_arg, audio, loads, i,
                   output_audio, output_exists, data, data0, val, bytes, count,
                   output_stream, written>>

-----------------------------------------------------------------------------
(* Specifications *)

(* synth.py __main__: args.play is always true (line 151) *)
Next ==
    \/ MainGetDiphones
    \/ SynthInitHit
    \/ SynthInitMissing
    \/ SynthInitLoad
    \/ SynthInitDone
    \/ GetAudioAppend
    \/ GetAudioConcat
    \/ Rescale
    \/ PlayOpen("rescaled")
    \/ PutBytesWrite
    \/ PutBytesDeviceError
    \/ PutBytesOutOfRange
    \/ PlayClose
    \/ MainSave

Spec == Init /\ [][Next]_vars

NextRescale == Rescale

SpecRescale == InitRescale /\ [][NextRescale]_vars

NextPlay ==
    \/ PlayOpen("play")
    \/ PutBytesWrite
    \/ PutBytesDeviceError
    \/ PutBytesOutOfRange
    \/ PlayClose

(* play is sequential code: a step that can be taken is taken *)
SpecPlay == InitPlay /\ [][NextPlay]_vars /\ WF_vars(NextPlay)

-----------------------------------------------------------------------------
(* Properties *)

Windowed == pc # "get_diphones"

(* C1: for a phoneme sequence of length n >= 1, get_diphones returns       *)
(* exactly n+1 diphones in order: (None, phones[0]) first, (phones[n-1],   *)
(* None) last, and (phones[i], phones[i+1]) at position i+1 for every      *)
(* adjacent pair, repeated pairs included.                                 *)
WindowingExact ==
    (Windowed /\ Len(phones) >= 1) =>
        /\ err # "IndexError"
        /\ Len(diphones) = Len(phones) + 1
        /\ diphones[1] = <<None, phones[1]>>
        /\ diphones[Len(phones) + 1] = <<phones[Len(phones)], None>>
        /\ \A k \in 1..(Len(phones) - 1) :
               diphones[k + 1] = <<phones[k], phones[k + 1]>>

(* A three-phoneme utterance with a repeated pair has been windowed. *)
WindowingRepeatedPair ==
    /\ Windowed
    /\ Len(phones) = 3
    /\ phones[1] = phones[2]
    /\ phones[2] = phones[3]
    /\ Len(diphones) = 4
    /\ diphones[2] = diphones[3]

(* C2: for the empty phoneme sequence, get_diphones does not fail and      *)
(* returns the single diphone (None, None), whose file name is             *)
(* "pau-pau.wav".                                                          *)
EmptyWindowIsSilence ==
    (Windowed /\ Len(phones) = 0) =>
        /\ err = "none"
        /\ Len(diphones) = 1
        /\ diphones[1] = <<None, None>>
        /\ get_filename(diphones[1]) = "pau-pau.wav"

(* The identifiers of the diphone sequence. *)
Identifiers == {get_filename(diphones[k]) : k \in 1..Len(diphones)}

RECURSIVE SumOver(_, _)
SumOver(f, S) ==
    IF S = {} THEN 0
    ELSE LET x == CHOOSE y \in S : TRUE IN f[x] + SumOver(f, S \ {x})

TotalLoads == SumOver(loads, AllFilenames)

Constructed == pc \in {"get_audio", "rescale", "rescaled", "play_loop",
                       "play_close", "played", "done"}
               \/ (pc = "raised" /\ err # "IndexError")

(* C5: a Synth loads each distinct identifier at most once: what is in the *)
(* cache was loaded exactly once, what is not was never loaded, and once   *)
(* the Synth is constructed, and through get_audio and after it, the       *)
(* number of loads is the number of distinct identifiers of the sequence.  *)
LoadsOncePerIdentifier ==
    /\ \A fn \in AllFilenames :
           /\ loads[fn] <= 1
           /\ (loads[fn] = 1) <=> (fn \in DOMAIN audio)
    /\ Constructed => TotalLoads = Cardinality(Identifiers)

(* get_audio has run over a sequence that repeats an identifier. *)
RepeatedIdentifierResolved ==
    /\ pc = "rescale"
    /\ Cardinality(Identifiers) < Len(diphones)
    /\ TotalLoads = Cardinality(Identifiers)

(* Number of samples of the source buffers of the diphones before position k *)
RECURSIVE OffsetOf(_)
OffsetOf(k) ==
    IF k <= 1 THEN 0
    ELSE OffsetOf(k - 1) + Len(audio[get_filename(diphones[k - 1])])

(* C6: the buffer get_audio builds before normalization is the             *)
(* concatenation, in sequence order, of the cached buffer of each diphone, *)
(* one copy per occurrence; its length is the sum of their lengths.        *)
ConcatenationInOrder ==
    pc = "rescale" =>
        /\ Len(data) = OffsetOf(Len(diphones) + 1)
        /\ \A k \in 1..Len(diphones) :
               LET src == audio[get_filename(diphones[k])]
               IN  \A j \in 1..Len(src) : data[OffsetOf(k) + j] = src[j]

(* A buffer has been built from a sequence with a repeated diphone whose   *)
(* neighbours have buffers of other lengths.                               *)
ConcatenationOfRepeats ==
    /\ pc = "rescale"
    /\ Len(diphones) = 4
    /\ diphones[2] = diphones[3]
    /\ Len(data) > Len(audio[get_filename(diphones[1])])
                   + Len(audio[get_filename(diphones[2])])
                   + Len(audio[get_filename(diphones[4])])

AssetMissing ==
    /\ Windowed
    /\ \E k \in 1..Len(diphones) : get_filename(diphones[k]) \notin directory

(* C7: if the asset of any diphone of the sequence is missing, the request *)
(* aborts where the missing asset is met: no output buffer is built, no    *)
(* chunk is played and no file is saved.                                   *)
MissingAssetAborts ==
    /\ AssetMissing =>
           /\ ~output_exists
           /\ written = <<>>
           /\ saved = <<>>
           /\ output_stream = "None"
           /\ pc \in {"synth_init", "exited"}
    /\ err = "SystemExit" =>
           /\ get_filename(diphones[i]) \notin directory
           /\ \A k \in 1..(i - 1) : get_filename(diphones[k]) \in directory

(* The request was aborted after earlier diphones had been loaded. *)
AbortedAfterLoads ==
    /\ err = "SystemExit"
    /\ pc = "exited"
    /\ TotalLoads >= 2

RescaleReturned == pc \in {"rescaled", "raised"}

FactorInRange == 0 <= val /\ val <= 2

Magnitude(x) == IF x < 0 THEN -x ELSE x

(* C3: for a buffer that is not all-zero and a factor in [0,1], rescale    *)
(* leaves every sample, the last one included, with magnitude at most      *)
(* factor * 32767 (within integer rounding), and every sample is the       *)
(* scaled value itself: the cast back to 16 bits changes nothing.          *)
RescaleWithinFullScale ==
    (RescaleReturned /\ FactorInRange /\ \E k \in 1..Len(data0) : data0[k] # 0) =>
        /\ err = "none"
        /\ \A k \in 1..Len(data) :
               /\ 2 * Magnitude(data[k]) <= val * 32767 + 2
               /\ data[k] = ScaleSample(data0[k], val, Peak(data0))

(* C4: rescale with a factor in [0,1] on a buffer whose samples are all    *)
(* zero (the empty buffer included) completes without a division by zero   *)
(* and leaves the samples unchanged.                                       *)
RescaleSilenceUnchanged ==
    (RescaleReturned /\ FactorInRange /\ \A k \in 1..Len(data0) : data0[k] = 0) =>
        /\ err = "none"
        /\ data = data0

PlayExited == pc \in {"played", "raised"}

(* C8: on every exit path of play, normal or by a failed chunk write, the  *)
(* stream play opened has been closed and the handle cleared.              *)
StreamReleasedOnExit == PlayExited => output_stream = "None"

(* C9: play terminates for every buffer and every chunk size >= 1: the     *)
(* counter is 0 when the stream is opened, grows by exactly one per chunk  *)
(* written, and the out-of-range condition of put_bytes ends the loop      *)
(* inside play and never reaches the caller.                               *)
PlayTerminates ==
    /\ <>PlayExited
    /\ [][pc = "play" => (count' = 0 /\ output_stream' = "open")]_vars
    /\ [][pc = "play_loop" =>
            /\ (written' # written <=> count' # count)
            /\ (written' # written =>
                   /\ Len(written') = Len(written) + 1
                   /\ count' = count + 1)]_vars
    /\ [](err # "IndexError")
    /\ [](pc = "played" => (err = "none" /\ slice_to > Len(data)))

(* play ended by exhaustion after several chunks, from a stale counter. *)
PlayedSeveralChunks ==
    /\ pc = "played"
    /\ err = "none"
    /\ count >= 2
    /\ Len(written) = count
    /\ Len(data) >= 1

(* C10: with chunk counter c and chunk size k, put_bytes writes exactly    *)
(* the k samples at indices [c*k, c*k + k) and reports out-of-range        *)
(* exactly when c*k + k exceeds the buffer length: the chunks of one play  *)
(* are contiguous and together are the prefix of length floor(len/k)*k.    *)
ChunksContiguous ==
    /\ \A c \in 1..Len(written) :
           written[c] = SubSeq(data, (c - 1) * bytes + 1, (c - 1) * bytes + bytes)
    /\ pc \in {"play_close", "played"} =>
           /\ Len(written) = Len(data) \div bytes
           /\ concatenate(written) = SubSeq(data, 1, (Len(data) \div bytes) * bytes)

====
